---- MODULE Spec2Model ----
(***************************************************************************)
(* M100 Free Memory Watcher (src/MK4duo/src/utility/M100_Free_Mem_Chk.cpp) *)
(*                                                                         *)
(* The watcher is modelled for its AVR target: int and pointers are 16     *)
(* bits wide, so every uint16_t/int16_t conversion of the source is an     *)
(* explicit U16/I16 here.  All three compile options (watcher, dumper,     *)
(* corruptor) are enabled.  RAM is kept as rows of 16 bytes; the           *)
(* loops of the source that call idle() or that the properties talk about  *)
(* (the two block scans, the dump rows, the corruptor writes) advance one  *)
(* iteration per step, memset and the read-back of init_free_memory are    *)
(* part of the gcode_M100 step that calls them.                            *)
(*                                                                         *)
(* top_of_stack() is modelled as one address, stack_top, for every frame   *)
(* (the few bytes by which the frames differ lie inside the 250-byte       *)
(* margin).                                                                *)
(***************************************************************************)
EXTENDS Integers, Sequences, FiniteSets, TLC

\* ------------------------------------------------------------------------
\* Program constants
\* ------------------------------------------------------------------------
TEST_BYTE == 229        \* (char) 0xE5
RunCap == 32000         \* count_test_bytes: i < 32000
MinRun == 8             \* if (j > 8)
HeapMargin == 8         \* ptr += 8
StackMargin == 250      \* size -= 250 / - 250
RowBytes == 16          \* 16 data bytes per dump row
CollisionDumpStart == 7040   \* (char*)0x1B80
CollisionDumpEnd == 8703     \* 0x21FF
Word == 65536           \* 2^16: width of int, uint16_t and of a pointer
Char == 256             \* 2^8: width of char
Blank == 32             \* ' '
Tilde == 126            \* 0x7E
Anomaly == 63           \* '?'

\* ------------------------------------------------------------------------
\* Bounds of the model
\* ------------------------------------------------------------------------
BUFSIZE == 2            \* rows of command_queue (a configuration value)
MAX_CMD_SIZE == 24      \* bytes per row of command_queue (configuration)
MaxCount == 3           \* largest x of "M100 C x" in Spec
MaxBlocks == 240        \* the report loop is followed up to this block count
MaxCorruptions == 1     \* "M100 C" commands between two initialisations

VARIABLES
  mem,                  \* RAM from RamLow up to ramend, as rows of RowBytes bytes
  ramend,               \* last RAM address
  command_queue,        \* address of command_queue
  bss_end,              \* &__bss_end
  brkval,               \* __brkval (0: malloc never called)
  stack_top,            \* top_of_stack()
  m100_not_initialized, \* static bool of gcode_M100
  pc,                   \* "idle" or the loop that is running
  title,                \* title argument of check_for_free_memory_corruption
  i, n, j,              \* loop index, loop limit (size / n), corruptor stride
  block_cnt, max_cnt, max_addr,
  dump_ptr, dump_sp, dump_ret,
  out,                  \* what the last top-level call printed / returned
  hist                  \* history variables used by the properties

layout == <<ramend, command_queue, bss_end, brkval, stack_top>>
locals == <<title, i, n, j, block_cnt, max_cnt, max_addr, dump_ptr, dump_sp, dump_ret>>
vars == <<mem, layout, m100_not_initialized, pc, locals, out, hist>>


\* ------------------------------------------------------------------------
\* Integer widths and memory access
\* ------------------------------------------------------------------------
\* conversion to uint16_t (and pointer arithmetic, which wraps the same way)
U16(x) == x % Word

\* conversion to int16_t / int
I16(x) == LET m == x % Word IN IF m >= Word \div 2 THEN m - Word ELSE m

\* first address of the modelled RAM
RamLow == CollisionDumpStart

\* *(uint8_t*)a; an address outside the modelled RAM reads as 0
InRam(a) == a >= RamLow /\ a <= ramend

\* mem holds the RAM as rows of RowBytes bytes, the first row at RamLow:
\* the row of mem and the column in that row of the byte at address a
Row(a) == ((a - RamLow) \div RowBytes) + 1
Col(a) == ((a - RamLow) % RowBytes) + 1

\* the address of the byte in column c of row r
Addr(r, c) == RamLow + (r - 1) * RowBytes + (c - 1)

Byte(m, a) == IF InRam(U16(a)) THEN m[Row(U16(a))][Col(U16(a))] ELSE 0

\* *(char*)a = v; a store outside the modelled RAM changes nothing in it
Store(m, a, v) ==
  IF InRam(U16(a)) THEN [m EXCEPT ![Row(U16(a))][Col(U16(a))] = v % Char] ELSE m

\* memset(p, TEST_BYTE, len)
Memset(m, p, len) ==
  <<>> \o [r \in 1..Len(m) |->
    IF Addr(r, RowBytes) < p \/ Addr(r, 1) >= p + len
      THEN m[r]
      ELSE <<>> \o [c \in 1..RowBytes |->
             IF p <= Addr(r, c) /\ Addr(r, c) < p + len THEN TEST_BYTE ELSE m[r][c]]]

\* #define END_OF_HEAP() (__brkval ? __brkval : &__bss_end)
END_OF_HEAP == IF brkval # 0 THEN brkval ELSE bss_end

\* (uint16_t)ptr & 0xFFF0
AlignDown(a) == U16(a) - (U16(a) % RowBytes)

\* (uint16_t)sp | 0x000F
AlignUp(a) == AlignDown(a) + (RowBytes - 1)

\* ------------------------------------------------------------------------
\* count_test_bytes: the index of the first byte that is not TEST_BYTE,
\* minus one; -1 when the first RunCap bytes are all TEST_BYTE.  The loop
\* stops at the first address past the modelled RAM, which reads as 0.
\* ------------------------------------------------------------------------
count_test_bytes(m, p) ==
  LET last == IF p + RunCap - 1 <= ramend THEN p + RunCap - 1 ELSE ramend + 1
  IN IF \A a \in p..last : Byte(m, a) = TEST_BYTE
       THEN -1
       ELSE LET stop == CHOOSE a \in p..last :
                          /\ Byte(m, a) # TEST_BYTE
                          /\ \A b \in p..(a - 1) : Byte(m, b) = TEST_BYTE
            IN I16((stop - p) - 1)

\* ------------------------------------------------------------------------
\* dump_free_memory: the character printed for byte b at address a in the
\* right-hand column of a row.
\* &command_queue[BUFSIZE][MAX_CMD_SIZE] is command_queue + BUFSIZE rows +
\* MAX_CMD_SIZE bytes.
\* ------------------------------------------------------------------------
CommandQueueLimit == command_queue + BUFSIZE * MAX_CMD_SIZE + MAX_CMD_SIZE

Annotation(a, b) ==
  IF a >= command_queue /\ a < CommandQueueLimit
    THEN (IF b >= Blank /\ b <= Tilde THEN b ELSE Blank)
    ELSE (IF b = TEST_BYTE THEN Blank ELSE Anomaly)

DumpRowText(m, p) == [k \in 1..RowBytes |-> Annotation(p + k - 1, Byte(m, p + k - 1))]

\* ------------------------------------------------------------------------
\* init_free_memory(ptr, size): what it leaves in memory and what it prints
\* ------------------------------------------------------------------------
init_free_memory(m, ptr, size) ==
  LET sz == I16(size - StackMargin)
  IN IF sz < 0
       THEN [mem |-> m, msg |-> "unable", bytes |-> 0]
       ELSE [mem |-> Memset(m, ptr + HeapMargin, sz), msg |-> "initialized", bytes |-> sz]

\* a gcode_M100 that initialises on every invocation
NeedsInit_EveryCall(notInitialized, seenI) == TRUE

\* gcode_M100: if (m100_not_initialized || code_seen('I'))
NeedsInit(notInitialized, seenI) == notInitialized \/ seenI

\* corrupt_free_memory: near_top / (size + 1), both uint16_t
Stride(ptr, sp, size) == U16(sp - (ptr + HeapMargin) - StackMargin) \div U16(size + 1)

\* corrupt_free_memory: char * const addr = ptr + i * j  (ptr already += 8)
CorruptAddr(ptr, k, stride) == U16(ptr + HeapMargin + U16(k * stride))

\* a scan length taken as unsigned, as free_memory_pool_report's size is
ScanLength_Unsigned(ptr, sp) == U16(sp - ptr)

\* check_for_free_memory_corruption: int n = sp - ptr
ScanLength(ptr, sp) == I16(sp - ptr)

\* a return value without the "no free block" special case
ReturnCode_NoSpecialCase(cnt) == IF cnt = 1 THEN 0 ELSE cnt

\* check_for_free_memory_corruption: the value returned for a block count
ReturnCode(cnt) == IF cnt = 1 THEN 0 ELSE IF cnt = 0 THEN -1 ELSE cnt

\* check_for_free_memory_corruption: if (block_cnt != 1 || __brkval != 0x0000)
CorruptionMessage(cnt, brk) == cnt # 1 \/ brk # 0

\* ------------------------------------------------------------------------
\* Initial states: the memory map after boot, before any M100
\* ------------------------------------------------------------------------
\* sp - ptr of the configurations of Spec (negative: the stack is below the
\* heap end)
RegionSizes == {-40, 100, 250, 258, 259, 330}

\* the configurations that boot with old test bytes below the stack
StaleSizes == {330}

\* the configurations in which malloc has been called (__brkval # 0)
UsedSizes == {-40, 330}

\* bytes of .bss behind command_queue, and bytes malloc has handed out
BssTail == 7
HeapUsed == 32

\* bytes of live stack above top_of_stack(); RAM above them is not modelled
StackDepth == 16

NoOutput ==
  [init |-> "none", init_bytes |-> 0, found |-> <<>>, report_corruption |-> FALSE,
   collision |-> FALSE, corruption |-> FALSE, block_found |-> 0, returned |-> FALSE,
   ret |-> 0, scanned |-> 0, rows |-> 0, row |-> [addr |-> 0, text |-> <<>>],
   corrupted |-> <<>>]

NoHistory ==
  [lazy_inits |-> 0, i_requested |-> FALSE, corruptions |-> 0,
   intact_seen |-> FALSE, last_count |-> 0, last_stride |-> 0]

\* no function of the watcher is running: its locals do not exist
NoLocals ==
  /\ title = ""
  /\ i = 0 /\ n = 0 /\ j = 0
  /\ block_cnt = 0 /\ max_cnt = 0 /\ max_addr = 0
  /\ dump_ptr = 0 /\ dump_sp = 0 /\ dump_ret = "idle"

\* a function of the watcher returns to the command loop
ReturnToIdle ==
  /\ title' = ""
  /\ i' = 0 /\ n' = 0 /\ j' = 0
  /\ block_cnt' = 0 /\ max_cnt' = 0 /\ max_addr' = 0
  /\ dump_ptr' = 0 /\ dump_sp' = 0 /\ dump_ret' = "idle"

\* RAM after boot: .data below command_queue, command text in command_queue,
\* other .bss behind it, the malloc'ed heap, the free gap (zero, with a run
\* of old test bytes below the stack when stale), the live stack on top.
BootMemory(top, cq, bss, brk, sp, stale) ==
  LET heapEnd == IF brk # 0 THEN brk ELSE bss
  IN <<>> \o [r \in 1..Row(top) |-> <<>> \o [c \in 1..RowBytes |->
       LET a == Addr(r, c) IN
       IF a > top THEN 0
       ELSE IF a < cq THEN 17
       ELSE IF a < cq + BUFSIZE * MAX_CMD_SIZE
         THEN (IF (a - cq) % MAX_CMD_SIZE = MAX_CMD_SIZE - 1 THEN 0 ELSE 77)
       ELSE IF a < bss THEN 49
       ELSE IF a >= sp THEN 33
       ELSE IF a < heapEnd THEN 85
       ELSE IF stale /\ a >= sp - 30 /\ a < sp - 18 THEN TEST_BYTE
       ELSE 0]]

Boot(size, used, stale) ==
  /\ command_queue = RamLow + RowBytes
  /\ bss_end = command_queue + BUFSIZE * MAX_CMD_SIZE + BssTail
  /\ brkval = IF used THEN bss_end + HeapUsed ELSE 0
  /\ stack_top = END_OF_HEAP + size
  /\ ramend = (IF size >= 0 THEN stack_top ELSE END_OF_HEAP) + StackDepth
  /\ mem = BootMemory(ramend, command_queue, bss_end, brkval, stack_top, stale)
  /\ m100_not_initialized = TRUE
  /\ pc = "idle"
  /\ NoLocals
  /\ out = NoOutput
  /\ hist = NoHistory

Init == \E size \in RegionSizes, used \in BOOLEAN, stale \in BOOLEAN :
          /\ stale => size \in StaleSizes
          /\ used => size \in UsedSizes /\ ~stale
          /\ Boot(size, used, stale)

\* ------------------------------------------------------------------------
\* check_for_free_memory_corruption, up to the scan loop
\* ------------------------------------------------------------------------
CheckPrologue(t, o) ==
  LET ptr == END_OF_HEAP
      sp == stack_top
  IN /\ title' = t
     /\ n' = ScanLength(ptr, sp)
     /\ i' = 0
     /\ block_cnt' = 0
     /\ out' = [o EXCEPT !.collision = (sp < ptr), !.found = <<>>]
     /\ IF sp < ptr
          THEN \* M100_dump_routine(..., 0x1B80, 0x21FF)
               /\ pc' = "dump"
               /\ dump_ptr' = AlignDown(AlignDown(CollisionDumpStart))
               /\ dump_sp' = AlignUp(AlignUp(CollisionDumpEnd))
               /\ dump_ret' = "check"
          ELSE /\ pc' = "check"
               /\ UNCHANGED <<dump_ptr, dump_sp, dump_ret>>
     /\ j' = 0 /\ max_cnt' = 0 /\ max_addr' = 0
     /\ UNCHANGED <<mem, layout, m100_not_initialized, hist>>

\* a developer's call of check_for_free_memory_corruption(title)
check_for_free_memory_corruption ==
  /\ pc = "idle"
  /\ CheckPrologue("dev ", NoOutput)

\* ------------------------------------------------------------------------
\* gcode_M100 with the letters `seen` on the command line and value v of C
\* ------------------------------------------------------------------------
Letters == {"I", "D", "F", "C"}

\* the sub-command gcode_M100 returns into: D before F before C
Dispatch(seen) ==
  IF "D" \in seen THEN "dump"
  ELSE IF "F" \in seen THEN "report"
  ELSE IF "C" \in seen THEN "corrupt"
  ELSE "idle"

\* code_value_int() is read only by "M100 C"
CodeValues(seen, values) == IF Dispatch(seen) = "corrupt" THEN values ELSE {0}

gcode_M100(seen, v) ==
  LET ptr == END_OF_HEAP
      sp == stack_top
      doInit == NeedsInit(m100_not_initialized, "I" \in seen)
      r == IF doInit THEN init_free_memory(mem, ptr, I16(sp - ptr))
                     ELSE [mem |-> mem, msg |-> "none", bytes |-> 0]
      \* init runs counted when no I asked for them; whether I was ever seen
      h == IF doInit
             THEN [hist EXCEPT !.lazy_inits = (IF "I" \in seen THEN @ ELSE @ + 1),
                               !.i_requested = @ \/ ("I" \in seen),
                               !.corruptions = 0,
                               !.intact_seen = FALSE]
             ELSE [hist EXCEPT !.i_requested = @ \/ ("I" \in seen)]
      cmd == Dispatch(seen)
  IN /\ pc = "idle"
     \* bounds of the model
     /\ cmd = "corrupt" => h.corruptions < MaxCorruptions
     /\ cmd = "report" => I16(sp - ptr) >= 0
     \* the code
     /\ m100_not_initialized' = (IF doInit THEN FALSE ELSE m100_not_initialized)
     /\ mem' = r.mem
     /\ out' = [NoOutput EXCEPT !.init = r.msg, !.init_bytes = r.bytes]
     /\ hist' = h
     /\ pc' = cmd
     /\ dump_ptr' = (IF cmd = "dump" THEN AlignDown(ptr) ELSE 0)
     /\ dump_sp' = (IF cmd = "dump" THEN AlignUp(sp) ELSE 0)
     /\ dump_ret' = "idle"
     /\ i' = (IF cmd = "corrupt" THEN 1 ELSE 0)
     /\ n' = (IF cmd = "report" THEN U16(sp - ptr)
              ELSE IF cmd = "corrupt" THEN U16(v) ELSE 0)
     /\ j' = (IF cmd = "corrupt" THEN Stride(ptr, sp, U16(v)) ELSE 0)
     /\ block_cnt' = 0
     /\ max_cnt' = (IF cmd = "report" THEN -1 ELSE 0)
     /\ max_addr' = 0
     /\ UNCHANGED <<layout, title>>

\* ------------------------------------------------------------------------
\* dump_free_memory: one row per step, idle() between the rows
\* ------------------------------------------------------------------------
dump_free_memory_row ==
  /\ pc = "dump"
  /\ dump_ptr < dump_sp
  /\ out' = [out EXCEPT !.row = [addr |-> dump_ptr, text |-> DumpRowText(mem, dump_ptr)],
                        !.rows = @ + 1]
  /\ dump_ptr' = dump_ptr + RowBytes
  /\ UNCHANGED <<mem, layout, m100_not_initialized, pc, title, i, n, j, block_cnt,
                 max_cnt, max_addr, dump_sp, dump_ret, hist>>

dump_free_memory_end ==
  /\ pc = "dump"
  /\ ~(dump_ptr < dump_sp)
  /\ pc' = dump_ret
  /\ dump_ptr' = 0 /\ dump_sp' = 0 /\ dump_ret' = "idle"
  /\ UNCHANGED <<mem, layout, m100_not_initialized, title, i, n, j, block_cnt,
                 max_cnt, max_addr, out, hist>>

\* ------------------------------------------------------------------------
\* free_memory_pool_report: one iteration of the for loop per step.
\* i, j, size and block_cnt are uint16_t, max_cnt is int16_t; j > max_cnt
\* compares int with unsigned int, hence as unsigned.
\* ------------------------------------------------------------------------
free_memory_pool_report_step ==
  /\ pc = "report"
  /\ i < n
  /\ block_cnt < MaxBlocks              \* bound of the model
  /\ LET addr == U16(END_OF_HEAP + i) IN
     \E jj \in {IF Byte(mem, addr) = TEST_BYTE
                  THEN U16(count_test_bytes(mem, addr)) ELSE 0} :
     LET block == Byte(mem, addr) = TEST_BYTE /\ jj > MinRun IN
     /\ i' = (IF block THEN U16(U16(i + jj) + 1) ELSE U16(i + 1))
     /\ block_cnt' = (IF block THEN U16(block_cnt + 1) ELSE block_cnt)
     /\ max_cnt' = (IF block /\ jj > U16(max_cnt) THEN I16(jj) ELSE max_cnt)
     /\ max_addr' = (IF block /\ jj > U16(max_cnt) THEN addr ELSE max_addr)
     /\ out' = (IF block THEN [out EXCEPT !.found = Append(@, jj)] ELSE out)
     /\ UNCHANGED <<mem, layout, m100_not_initialized, pc, title, n, j,
                    dump_ptr, dump_sp, dump_ret, hist>>

\* the loop is over: the report's own verdict, then
\* check_for_free_memory_corruption("M100 F ")
free_memory_pool_report_end ==
  /\ pc = "report"
  /\ ~(i < n)
  /\ CheckPrologue("M100 F ", [out EXCEPT !.report_corruption = (block_cnt > 1)])

\* ------------------------------------------------------------------------
\* check_for_free_memory_corruption: one iteration of the for loop per
\* step (i, n, j and block_cnt are int), then the verdict.
\* ------------------------------------------------------------------------
check_step ==
  /\ pc = "check"
  /\ i < n
  /\ LET addr == U16(END_OF_HEAP + i) IN
     \E jj \in {IF Byte(mem, addr) = TEST_BYTE
                  THEN count_test_bytes(mem, addr) ELSE 0} :
     LET block == Byte(mem, addr) = TEST_BYTE /\ jj > MinRun IN
     /\ i' = (IF block THEN I16(I16(i + jj) + 1) ELSE I16(i + 1))
     /\ block_cnt' = (IF block THEN I16(block_cnt + 1) ELSE block_cnt)
     /\ out' = [out EXCEPT !.found = (IF block THEN Append(@, jj) ELSE @),
                           !.scanned = @ + 1]
     /\ UNCHANGED <<mem, layout, m100_not_initialized, pc, title, n, j, max_cnt,
                    max_addr, dump_ptr, dump_sp, dump_ret, hist>>

check_end ==
  /\ pc = "check"
  /\ ~(i < n)
  /\ out' = [out EXCEPT !.block_found = block_cnt,
                        !.corruption = CorruptionMessage(block_cnt, brkval),
                        !.returned = TRUE,
                        !.ret = ReturnCode(block_cnt)]
  /\ hist' = [hist EXCEPT !.intact_seen =
                 @ \/ (block_cnt = 1 /\ ~m100_not_initialized /\ hist.corruptions = 0)]
  /\ pc' = "idle"
  /\ ReturnToIdle
  /\ UNCHANGED <<mem, layout, m100_not_initialized>>

\* ------------------------------------------------------------------------
\* corrupt_free_memory: one write per step (i and size are uint16_t)
\* ------------------------------------------------------------------------
corrupt_free_memory_step ==
  LET addr == CorruptAddr(END_OF_HEAP, i, j)
  IN /\ pc = "corrupt"
     /\ i <= n
     /\ mem' = Store(mem, addr, i)
     /\ out' = [out EXCEPT !.corrupted = Append(@, addr)]
     /\ i' = U16(i + 1)
     /\ UNCHANGED <<layout, m100_not_initialized, pc, title, n, j, block_cnt,
                    max_cnt, max_addr, dump_ptr, dump_sp, dump_ret, hist>>

corrupt_free_memory_end ==
  /\ pc = "corrupt"
  /\ ~(i <= n)
  /\ pc' = "idle"
  /\ hist' = [hist EXCEPT !.corruptions = @ + 1, !.last_count = n, !.last_stride = j]
  /\ ReturnToIdle
  /\ UNCHANGED <<mem, layout, m100_not_initialized, out>>

\* ------------------------------------------------------------------------
\* Specification
\* ------------------------------------------------------------------------
Step ==
  \/ dump_free_memory_row
  \/ dump_free_memory_end
  \/ free_memory_pool_report_step
  \/ free_memory_pool_report_end
  \/ check_step
  \/ check_end
  \/ corrupt_free_memory_step
  \/ corrupt_free_memory_end
  \/ check_for_free_memory_corruption

Next ==
  \/ \E seen \in SUBSET Letters :
       \E v \in CodeValues(seen, 0..MaxCount) : gcode_M100(seen, v)
  \/ Step

Spec == Init /\ [][Next]_vars

\* ------------------------------------------------------------------------
\* Large memories: a pool wide enough for 229 well separated writes, and a
\* pool of more than RunCap bytes (external RAM).  Only "M100", "M100 F"
\* and "M100 C" are issued, and the check is called directly only once the
\* pool has been initialised.
\* ------------------------------------------------------------------------
ExampleSize == 2000
LargeSize == 4000
CapSize == 32260
LargeCounts == {3, 229}
LargeCommands == {{}, {"F"}, {"C"}}

InitLarge == \E size \in {ExampleSize, LargeSize, CapSize} : Boot(size, FALSE, FALSE)

NextLarge ==
  \/ \E seen \in LargeCommands :
       \E v \in CodeValues(seen, LargeCounts) : gcode_M100(seen, v)
  \/ (~m100_not_initialized /\ check_for_free_memory_corruption)
  \/ free_memory_pool_report_step
  \/ free_memory_pool_report_end
  \/ check_step
  \/ check_end
  \/ corrupt_free_memory_step
  \/ corrupt_free_memory_end

SpecLarge == InitLarge /\ [][NextLarge]_vars

\* ------------------------------------------------------------------------
\* Properties
\* ------------------------------------------------------------------------
\* S: the size of the watched region, sp - ptr
RegionSize == I16(stack_top - END_OF_HEAP)

\* check_for_free_memory_corruption has just returned
CheckReturned == pc = "idle" /\ out.returned

\* the pool was initialised for this region and nothing was written since
FreshlyInitialized == ~m100_not_initialized /\ hist.corruptions = 0

\* C1: for every region size S > 8 + 250, initialize followed by the block
\* scan with no write in between finds exactly one free block, of reported
\* length S - 8 - 250, and the check returns 0.
C1_InitThenScanOneBlock ==
  (CheckReturned /\ FreshlyInitialized /\ RegionSize > HeapMargin + StackMargin)
    => /\ out.block_found = 1
       /\ out.found = <<RegionSize - HeapMargin - StackMargin>>
       /\ out.ret = 0

\* C2: for every region size S <= 8 + 250, initialize fails with "Unable to
\* initialize" and leaves every byte of memory as it was.
C2_SmallRegionUntouched ==
  [][(pc = "idle" /\ out'.init # "none" /\ RegionSize <= HeapMargin + StackMargin)
       => (out'.init = "unable" /\ mem' = mem)]_vars

\* C3: the code returned by the check is determined by the number of blocks
\* the scan counted: 0 exactly when one block was counted, -1 when none was,
\* the block count itself when more than one was.
C3_ReturnCodeFromBlockCount ==
  CheckReturned =>
    /\ out.block_found = Len(out.found)
    /\ (out.ret = 0) <=> (Len(out.found) = 1)
    /\ Len(out.found) = 0 => out.ret = -1
    /\ Len(out.found) > 1 => out.ret = Len(out.found)

\* C3 witness: a check has returned after counting more than one block and
\* returned that count.
C3_Witness == CheckReturned /\ Len(out.found) > 1 /\ out.ret = Len(out.found)

\* C4: from an intact, freshly initialized pool, corrupt(n) with n >= 1 and a
\* stride of at least 16 bytes followed by the check reports exactly n + 1
\* blocks and returns n + 1.
C4_CorruptGivesCountPlusOne ==
  (/\ CheckReturned
   /\ hist.intact_seen
   /\ hist.corruptions = 1
   /\ hist.last_count >= 1
   /\ hist.last_stride >= RowBytes)
    => /\ out.block_found = hist.last_count + 1
       /\ out.ret = hist.last_count + 1

M100Work ==
  \/ pc \in {"report", "corrupt"}
  \/ title = "M100 F "
  \/ (pc = "dump" /\ dump_ret = "idle")

\* C6 as stated: without an explicit I the Initializer runs exactly once,
\* and it has run before any check scans the pool.
C6_InitBeforeAnyCheck ==
  /\ ~hist.i_requested => hist.lazy_inits = (IF m100_not_initialized THEN 0 ELSE 1)
  /\ out.scanned > 0 => ~m100_not_initialized

\* C6 as the code has it: without an explicit I the Initializer runs exactly
\* once, in the first gcode_M100 and before the sub-command of that M100, so
\* it has run before any scan that M100 F starts; a direct call of
\* check_for_free_memory_corruption does not trigger it; the flag, once
\* cleared, is never set again.
C6_LazyInitOnFirstM100 ==
  /\ [](~hist.i_requested => hist.lazy_inits = (IF m100_not_initialized THEN 0 ELSE 1))
  /\ [](hist.lazy_inits <= 1)
  /\ [](M100Work => ~m100_not_initialized)
  /\ [][~m100_not_initialized => ~m100_not_initialized']_vars
  /\ [][(pc = "idle" /\ m100_not_initialized /\ title' # "dev ")
          => (out'.init # "none" /\ ~m100_not_initialized')]_vars
  /\ [][(pc = "idle" /\ title' = "dev ")
          => (out'.init = "none" /\ m100_not_initialized' = m100_not_initialized)]_vars

\* C6 witness: with no I ever given, the check of an "M100 F" is scanning
\* the pool that the one lazy initialisation filled and an "M100 C" wrote to.
C6_Witness ==
  /\ pc = "check"
  /\ title = "M100 F "
  /\ out.scanned > 0
  /\ ~hist.i_requested
  /\ hist.lazy_inits = 1
  /\ hist.corruptions = 1

\* the character the dump should print for byte b at address a when the
\* exempt zone is exactly command_queue's own bytes
ExemptZoneAnnotation(a, b) ==
  IF a >= command_queue /\ a < command_queue + BUFSIZE * MAX_CMD_SIZE
    THEN (IF b >= Blank /\ b <= Tilde THEN b ELSE Blank)
    ELSE (IF b = TEST_BYTE THEN Blank ELSE Anomaly)

\* C7: in every dump row a byte inside command_queue is shown as its
\* printable character or a blank, and a byte at any other address as blank
\* when it is the test byte and as '?' when it is not.
C7_AnomalyOutsideCommandQueue ==
  (pc = "dump" /\ out.rows > 0)
    => \A k \in 1..RowBytes :
         out.row.text[k] = ExemptZoneAnnotation(out.row.addr + k - 1,
                                                Byte(mem, out.row.addr + k - 1))

\* C8: in both block scans the outer index strictly advances on every
\* iteration (so each scan ends after one pass over the region), also when
\* a run of test bytes reaches the cap of count_test_bytes.
C8_ScanIndexAdvances ==
  [][((pc = "report" /\ pc' = "report") \/ (pc = "check" /\ pc' = "check"))
       => i' > i]_vars

\* C9: every byte written by the corruptor lies inside
\* [start + 8, end - 250), whatever the region size and the count.
C9_CorruptorStaysInPool ==
  \A k \in 1..Len(out.corrupted) :
    /\ out.corrupted[k] >= END_OF_HEAP + HeapMargin
    /\ out.corrupted[k] < stack_top - StackMargin

\* C10: the check prints "Memory Corruption detected in free memory area"
\* exactly when it returns a non-zero code.
C10_VerdictMatchesReturnCode ==
  CheckReturned => (out.corruption <=> (out.ret # 0))

====
